---------------------------- MODULE Spec2Model ----------------------------
(***************************************************************************)
(* Model of mda_viewer: the CP866 decoder (cp866.py), the dump-line fixers *)
(* and the screen patcher (__main__.py), and the polling loop of main().   *)
(*                                                                         *)
(* Text is a sequence of Unicode code points, a byte buffer a sequence of  *)
(* numbers 0..255.  Offsets named "start"/"end" are Python offsets         *)
(* (0-based, end exclusive); TLA+ sequences are indexed from 1.            *)
(***************************************************************************)
EXTENDS Integers, Sequences, FiniteSets, TLC

(***************************************************************************)
(* Bounds of the model.                                                    *)
(***************************************************************************)
\* chunks the driver reads before the model stops reading
MaxChunks == 2
\* hex tokens a generated dump line carries beyond the 16 (8) that are used
MaxExtra == 1

(***************************************************************************)
(* cp866.py                                                                *)
(***************************************************************************)
\* bytes([i]).decode("cp866") for i in 0xB0..0xDF (box drawing, shades)
Cp866Graphics ==
  << 9617, 9618, 9619, 9474, 9508, 9569, 9570, 9558, 9557, 9571, 9553, 9559,
     9565, 9564, 9563, 9488, 9492, 9524, 9516, 9500, 9472, 9532, 9566, 9567,
     9562, 9556, 9577, 9574, 9568, 9552, 9580, 9575, 9576, 9572, 9573, 9561,
     9560, 9554, 9555, 9579, 9578, 9496, 9484, 9608, 9604, 9612, 9616, 9600 >>

\* bytes([i]).decode("cp866") for i in 0xF0..0xFF
Cp866Specials ==
  << 1025, 1105, 1028, 1108, 1031, 1111, 1038, 1118,
     176, 8729, 183, 8730, 8470, 164, 9632, 160 >>

\* bytes([i]).decode("cp866", errors="strict"): the code point of byte i
Cp866CodePoint(i) ==
  IF i < 128 THEN i
  ELSE IF i < 176 THEN 1040 + (i - 128)
  ELSE IF i < 224 THEN Cp866Graphics[i - 175]
  ELSE IF i < 240 THEN 1088 + (i - 224)
  ELSE Cp866Specials[i - 239]

\* str.encode("utf-8") of one code point (all of CP866 lies below U+10000)
Utf8Encode(cp) ==
  IF cp < 128 THEN << cp >>
  ELSE IF cp < 2048 THEN << 192 + (cp \div 64), 128 + (cp % 64) >>
  ELSE << 224 + (cp \div 4096), 128 + ((cp \div 64) % 64), 128 + (cp % 64) >>

\* the table: entry i is the UTF-8 bytes of byte i decoded as CP866
CP866 == [i \in 0..255 |-> Utf8Encode(Cp866CodePoint(i))]

\* bytes(chain.from_iterable(CP866[b] for b in data)), for data[lo..hi]; the
\* concatenation is computed by halves
RECURSIVE ChainTable(_, _, _)
ChainTable(data, lo, hi) ==
  IF lo > hi THEN << >>
  ELSE IF lo = hi THEN CP866[data[lo]]
  ELSE LET mid == (lo + hi) \div 2
       IN  ChainTable(data, lo, mid) \o ChainTable(data, mid + 1, hi)

\* a continuation byte 10xxxxxx of UTF-8
IsContinuation(x) == x \in 128..191

\* the code point of the 1-, 2- or 3-byte sequence that starts at bs[i]
Utf8CodePointAt(bs, i) ==
  IF bs[i] < 128 THEN bs[i]
  ELSE IF bs[i] < 224 THEN (bs[i] - 192) * 64 + (bs[i + 1] - 128)
  ELSE (bs[i] - 224) * 4096 + (bs[i + 1] - 128) * 64 + (bs[i + 2] - 128)

\* the length of the sequence that starts at bs[i]
Utf8Width(bs, i) == IF bs[i] < 128 THEN 1 ELSE IF bs[i] < 224 THEN 2 ELSE 3

\* bytes.decode("utf-8") of bs[lo..hi], a run of whole 1-, 2- and 3-byte
\* sequences; a long run is cut at the first sequence start from its middle
RECURSIVE Utf8Decode(_, _, _)
Utf8Decode(bs, lo, hi) ==
  IF lo > hi THEN << >>
  ELSE IF hi - lo < 3
    THEN << Utf8CodePointAt(bs, lo) >> \o Utf8Decode(bs, lo + Utf8Width(bs, lo), hi)
  ELSE LET m == (lo + hi) \div 2
           mid == IF ~IsContinuation(bs[m]) THEN m
                  ELSE IF ~IsContinuation(bs[m + 1]) THEN m + 1
                  ELSE m + 2
       IN  Utf8Decode(bs, lo, mid - 1) \o Utf8Decode(bs, mid, hi)

cp866_to_utf8(data) ==
  LET bs == ChainTable(data, 1, Len(data))
  IN  Utf8Decode(bs, 1, Len(bs))

(***************************************************************************)
(* __main__.py: constants and the regular expressions                      *)
(***************************************************************************)
\* "\33[0;0H"
ANSI_CURSOR_HOME == << 27, 91, 48, 59, 48, 72 >>
\* "\33[0m"
ANSI_ATTR_RESET == << 27, 91, 48, 109 >>

\* the result None of a fixer (no text holds a negative code point)
None == << -1 >>

\* [0-9A-Fa-f]
IsHex(c) == c \in 48..57 \/ c \in 65..70 \/ c \in 97..102

\* int(c, 16) of one hex digit
HexDigitValue(c) ==
  IF c \in 48..57 THEN c - 48 ELSE IF c \in 65..70 THEN c - 55 ELSE c - 87

\* \w of a str pattern, over the code points the decoder produces: the ASCII
\* letters, digits and '_', and the Cyrillic letters of CP866
IsWordChar(c) ==
  \/ c \in 48..57 \/ c \in 65..90 \/ c \in 97..122 \/ c = 95
  \/ c \in 1040..1103
  \/ c \in {1025, 1105, 1028, 1108, 1031, 1111, 1038, 1118}

\* \b at Python offset p of s: exactly one side is a word character
WordBoundary(s, p) ==
  (p > 0 /\ IsWordChar(s[p])) # (p < Len(s) /\ IsWordChar(s[p + 1]))

\* the pattern without its closing \b
TokMatchAtNoEndBoundary(s, width, p) ==
  /\ p + width <= Len(s)
  /\ WordBoundary(s, p)
  /\ \A k \in 1..width : IsHex(s[p + k])

\* \b([0-9A-Fa-f]{width})\b matches s at offset p
TokMatchAt(s, width, p) ==
  /\ p + width <= Len(s)
  /\ WordBoundary(s, p)
  /\ \A k \in 1..width : IsHex(s[p + k])
  /\ WordBoundary(s, p + width)

\* the least element of a non-empty set of numbers
Least(S) == CHOOSE x \in S : \A y \in S : x <= y

\* list(RE.finditer(s)) from offset p on: the leftmost match at or after p,
\* then the matches from its end on
RECURSIVE finditer(_, _, _)
finditer(s, width, p) ==
  LET found == {q \in p..(Len(s) - width) : TokMatchAt(s, width, q)}
  IN  IF found = {} THEN << >>
      ELSE LET q == Least(found)
           IN  << [start |-> q, end |-> q + width] >> \o finditer(s, width, q + width)

\* int(tok.group(1), 16)
RECURSIVE IntBase16(_, _, _)
IntBase16(s, from, to) ==
  IF to < from THEN 0
  ELSE 16 * IntBase16(s, from, to - 1) + HexDigitValue(s[to])

TokValue(s, tok) == IntBase16(s, tok.start + 1, tok.end)

\* _ADDR_RE.match(line): ^([0-9A-Fa-f]{4}:[0-9A-Fa-f]{4})(.*)$ ; '.' matches
\* no "\n" and '$' matches at the end or before a final "\n"
AddrMatches(line) ==
  /\ Len(line) >= 9
  /\ \A k \in 1..4 : IsHex(line[k])
  /\ line[5] = 58
  /\ \A k \in 6..9 : IsHex(line[k])
  /\ \A k \in 10..Len(line) : line[k] = 10 => k = Len(line)

\* m.group(1)
AddrGroup(line) == SubSeq(line, 1, 9)

\* m.group(2)
RestGroup(line) ==
  IF line[Len(line)] = 10 THEN SubSeq(line, 10, Len(line) - 1)
  ELSE SubSeq(line, 10, Len(line))

\* len(tail) - len(tail.lstrip(" "))
RECURSIVE LeadingSpaces(_, _)
LeadingSpaces(tail, i) ==
  IF i > Len(tail) \/ tail[i] # 32 THEN 0 ELSE 1 + LeadingSpaces(tail, i + 1)

\* " " * pad
Spaces(pad) == [i \in 1..pad |-> 32]

(***************************************************************************)
(* __main__.py: the fixers                                                 *)
(***************************************************************************)
\* the test b <= 0x20 in place of b < 0x20
render_byte_cp866_space_as_dot(b) ==
  IF b <= 32 \/ b = 127 THEN << 46 >> ELSE cp866_to_utf8(<< b >>)

render_byte_cp866(b) ==
  IF b < 32 \/ b = 127 THEN << 46 >> ELSE cp866_to_utf8(<< b >>)

\* "".join(render_byte_cp866(b) for b in bytes16)
RECURSIVE RenderAll(_, _)
RenderAll(bytes16, i) ==
  IF i > Len(bytes16) THEN << >>
  ELSE render_byte_cp866(bytes16[i]) \o RenderAll(bytes16, i + 1)

\* the pad of the typical layout, whatever the old tail starts with
PadWidthAlwaysTwo(line, split_pos) == 2

\* the pad of lines 67-71 (and 105-108)
PadWidth(line, split_pos) ==
  LET tail == SubSeq(line, split_pos + 1, Len(line))
      pad == LeadingSpaces(tail, 1)
  IN  IF pad < 1 THEN 2 ELSE pad

\* it[-16:] in place of it[:16]
ByteRunLast16(rest, it) == [i \in 1..16 |-> TokValue(rest, it[Len(it) - 16 + i])]

\* lines 58-60: the values of the first 16 byte tokens
ByteRun(rest, it) == [i \in 1..16 |-> TokValue(rest, it[i])]

\* the two bytes of each word in the order written, high byte first
WordRunHighFirst(rest, it) ==
  [i \in 1..16 |->
     LET w == TokValue(rest, it[(i + 1) \div 2])
     IN  IF i % 2 = 1 THEN (w \div 256) % 256 ELSE w % 256]

\* lines 95-100: each of the first 8 words gives lo = w & 0xFF, then
\* hi = (w >> 8) & 0xFF
WordRun(rest, it) ==
  [i \in 1..16 |->
     LET w == TokValue(rest, it[(i + 1) \div 2])
     IN  IF i % 2 = 1 THEN w % 256 ELSE (w \div 256) % 256]

try_fix_byte_view_line(line) ==
  IF ~AddrMatches(line) THEN None
  ELSE LET addr == AddrGroup(line)
           rest == RestGroup(line)
           it == finditer(rest, 2, 0)
       IN  IF Len(it) < 16 THEN None
           ELSE LET bytes16 == ByteRun(rest, it)
                    split_pos == Len(addr) + it[16].end
                IN  SubSeq(line, 1, split_pos)
                      \o Spaces(PadWidth(line, split_pos))
                      \o RenderAll(bytes16, 1)

try_fix_word_view_line(line) ==
  IF ~AddrMatches(line) THEN None
  ELSE LET addr == AddrGroup(line)
           rest == RestGroup(line)
           it == finditer(rest, 4, 0)
       IN  IF Len(it) < 8 THEN None
           ELSE LET bytes16 == WordRun(rest, it)
                    split_pos == Len(addr) + it[8].end
                IN  SubSeq(line, 1, split_pos)
                      \o Spaces(PadWidth(line, split_pos))
                      \o RenderAll(bytes16, 1)

(***************************************************************************)
(* __main__.py: the screen patcher                                         *)
(***************************************************************************)
\* the characters str.splitlines takes as ending a line
LineBreaks == {10, 11, 12, 13, 28, 29, 30, 133, 8232, 8233}

\* str.splitlines(True) of text from index `from` on: the lines, each with
\* its line break; "\r\n" is one break
RECURSIVE splitlines(_, _)
splitlines(text, from) ==
  LET breaks == {i \in from..Len(text) : text[i] \in LineBreaks}
  IN  IF from > Len(text) THEN << >>
      ELSE IF breaks = {} THEN << SubSeq(text, from, Len(text)) >>
      ELSE LET i == Least(breaks)
               j == IF text[i] = 13 /\ i < Len(text) /\ text[i + 1] = 10 THEN i + 1 ELSE i
           IN  << SubSeq(text, from, j) >> \o splitlines(text, j + 1)

\* lines 117-122: nl
LineNl(line) ==
  IF Len(line) >= 2 /\ line[Len(line) - 1] = 13 /\ line[Len(line)] = 10
    THEN << 13, 10 >>
  ELSE IF Len(line) >= 1 /\ line[Len(line)] = 10 THEN << 10 >>
  ELSE << >>

\* lines 117-122: core
LineCore(line) == SubSeq(line, 1, Len(line) - Len(LineNl(line)))

\* Python's truth value of a fixer's result (None and "" are false)
Truthy(x) == x # None /\ x # << >>

\* the two fixers tried in the other order
PyOrWordFirst(core) ==
  LET w == try_fix_word_view_line(core)
      b == try_fix_byte_view_line(core)
  IN  IF Truthy(w) THEN w ELSE IF Truthy(b) THEN b ELSE core

\* lines 124-128: try_fix_byte_view_line(core) or try_fix_word_view_line(core)
\* or core
FixedLine(core) ==
  LET b == try_fix_byte_view_line(core)
      w == try_fix_word_view_line(core)
  IN  IF Truthy(b) THEN b ELSE IF Truthy(w) THEN w ELSE core

\* the body of the loop of fix_screen_text: one element of out_lines
FixOneLine(line) == FixedLine(LineCore(line)) \o LineNl(line)

RECURSIVE JoinLines(_, _)
JoinLines(lines, i) ==
  IF i > Len(lines) THEN << >> ELSE lines[i] \o JoinLines(lines, i + 1)

fix_screen_text(screen_text) ==
  LET lines == splitlines(screen_text, 1)
  IN  JoinLines([i \in 1..Len(lines) |-> FixOneLine(lines[i])], 1)

(***************************************************************************)
(* The screens the debugger writes to the pipe (bytes, CP866).  Lines 9-11 *)
(* of __main__.py give the two dump layouts; the sets below vary what the  *)
(* fixers look at: the separator after the address, the number of tokens,  *)
(* the byte values, the stale tail and the line terminator.                *)
(***************************************************************************)
\* one uppercase hex digit, as the debugger prints it
HexChar(n) == IF n < 10 THEN 48 + n ELSE 55 + n

Hex2(b) == << HexChar(b \div 16), HexChar(b % 16) >>

Hex4(w) == Hex2(w \div 256) \o Hex2(w % 256)

\* the tokens of a dump line, one space between two of them
RECURSIVE JoinTokens(_, _)
JoinTokens(toks, i) ==
  IF i > Len(toks) THEN << >>
  ELSE IF i = Len(toks) THEN toks[i]
  ELSE toks[i] \o << 32 >> \o JoinTokens(toks, i + 1)

\* "0000:0500"
AddrField == << 48, 48, 48, 48, 58, 48, 53, 48, 48 >>

\* what separates the address from the first token: "", " ", "  "
Gaps == { << >>, << 32 >>, << 32, 32 >> }

\* the stale tails: "", " ....", "  ........", "....", "   A.", "Z...",
\* and "  " followed by byte 0x8A and ".."
Tails ==
  { << >>,
    << 32, 46, 46, 46, 46 >>,
    << 32, 32, 46, 46, 46, 46, 46, 46, 46, 46 >>,
    << 46, 46, 46, 46 >>,
    << 32, 32, 32, 65, 46 >>,
    << 90, 46, 46, 46 >>,
    << 138, 46, 46 >> }

\* the ends of the first line: none, "\n", "\r\n", "\r", "\f"
Terminators == { << >>, << 10 >>, << 13, 10 >>, << 13 >>, << 12 >> }

\* "F1=Help", the line after the dump line
StatusLine == << 70, 49, 61, 72, 101, 108, 112 >>

\* the byte values that vary in the dump lines of every shape
ShapeBytes == {0, 32, 138}

\* the values of the tokens that do not vary
FillByte(i) == (i * 17) % 256

FillWord(i) == (i * 4660) % 65536

ByteTokens(n, v) == [i \in 1..n |-> Hex2(IF i = 1 THEN v ELSE FillByte(i))]

WordTokens(n, w) == [i \in 1..n |-> Hex4(IF i = 1 THEN w ELSE FillWord(i))]

DumpLine(gap, toks, tail) == AddrField \o gap \o JoinTokens(toks, 1) \o tail

\* byte-view lines of every shape: 15 tokens (one short) up to 16 + MaxExtra
ByteShapeLines ==
  { DumpLine(gap, ByteTokens(n, v), tail) :
      gap \in Gaps, n \in 15..(16 + MaxExtra), v \in ShapeBytes, tail \in Tails }

\* word-view lines of every shape: 7 tokens (one short) up to 8 + MaxExtra
WordShapeLines ==
  { DumpLine(gap, WordTokens(n, v * 256 + v), tail) :
      gap \in Gaps, n \in 7..(8 + MaxExtra), v \in ShapeBytes, tail \in Tails }

\* byte-view and word-view lines with every byte value in the first token
ByteValueLines ==
  { DumpLine(<< 32, 32 >>, ByteTokens(16, v), << 32, 32, 46, 46 >>) : v \in 0..255 }

WordValueLines ==
  { DumpLine(<< 32, 32 >>, WordTokens(8, v * 256 + (255 - v)), << 32, 32, 46, 46 >>) :
      v \in 0..255 }

\* lines that hold both 16 byte tokens and 8 word tokens, in either order
BothLines ==
  { DumpLine(gap, WordTokens(8 + x, v * 256) \o ByteTokens(16 + x, v), tail) :
           gap \in Gaps, x \in 0..MaxExtra, v \in ShapeBytes,
           tail \in { << >>, << 32, 32, 46, 46 >> } }
  \cup { DumpLine(gap, ByteTokens(16 + x, v) \o WordTokens(8 + x, v * 256), tail) :
           gap \in Gaps, x \in 0..MaxExtra, v \in ShapeBytes,
           tail \in { << >>, << 32, 32, 46, 46 >> } }

\* lines that are no dump lines: a status line, an address one digit short,
\* a ':' replaced, runs of 3 and 5 hex digits after a good address
OtherLines ==
  { << >>,
    StatusLine,
    SubSeq(AddrField, 2, 9) \o << 32 >> \o JoinTokens(ByteTokens(16, 65), 1),
    << 48, 48, 48, 48, 59, 48, 53, 48, 48, 32 >> \o JoinTokens(WordTokens(8, 65), 1),
    << 32 >> \o DumpLine(<< 32 >>, ByteTokens(16, 65), << >>),
    DumpLine(<< 32 >>, [i \in 1..16 |-> Hex2(FillByte(i)) \o << 48 >>], << 32, 46 >>),
    DumpLine(<< 32 >>, [i \in 1..8 |-> Hex4(FillWord(i)) \o << 70 >>], << 32, 46 >>) }

\* "0000:0000  8A 10 00 00 00 00 00 00 00 00 00 00 00 00 00 00  ........"
ScenarioA ==
  << 48, 48, 48, 48, 58, 48, 48, 48, 48, 32, 32 >>
    \o JoinTokens([i \in 1..16 |-> Hex2(IF i = 1 THEN 138 ELSE IF i = 2 THEN 16 ELSE 0)], 1)
    \o << 32, 32, 46, 46, 46, 46, 46, 46, 46, 46 >>

\* "0000:0500  0000 2020 0000 0000 0000 0000 0000 0000  .... ...."
ScenarioB ==
  DumpLine(<< 32, 32 >>, [i \in 1..8 |-> Hex4(IF i = 2 THEN 8224 ELSE 0)],
           << 32, 32, 46, 46, 46, 46, 32, 46, 46, 46, 46 >>)

DumpLines ==
  ByteShapeLines \cup WordShapeLines \cup ByteValueLines \cup WordValueLines
    \cup BothLines \cup OtherLines \cup {ScenarioA, ScenarioB}

\* a screen: a first line, its terminator, and the status line after it; the
\* lines of every shape come with every terminator, the others with "\n"
Chunks ==
  { l \o t \o StatusLine :
      l \in ByteShapeLines \cup WordShapeLines \cup OtherLines, t \in Terminators }
    \cup { l \o << 10 >> \o StatusLine : l \in DumpLines }

(***************************************************************************)
(* __main__.py: main()                                                     *)
(***************************************************************************)
VARIABLES
  pc,         \* the statement main() is at
  mda_pipe,   \* os.getenv("MDA_PIPE") is set
  events,     \* (fifo, POLLIN) is in the result of the last poll.poll()
  data,       \* the chunk read
  screen,     \* the decoded, then the patched text
  out_lines,  \* out_lines of the last fix_screen_text
  stdout,     \* the control sequence that starts each print, in order
  exit_code,  \* what main() returned (-1: it has not)
  nread,      \* chunks read
  nwritten    \* chunks printed

vars ==
  << pc, mda_pipe, events, data, screen, out_lines, stdout, exit_code, nread, nwritten >>

\* the statements of the try block (lines 145-152)
LoopPcs == {"poll", "test", "read", "decode", "patch", "write"}

Init ==
  /\ pc = "start"
  /\ mda_pipe \in BOOLEAN
  /\ events = FALSE
  /\ data = << >>
  /\ screen = << >>
  /\ out_lines = << >>
  /\ stdout = << >>
  /\ exit_code = -1
  /\ nread = 0
  /\ nwritten = 0

\* lines 135-142
Start ==
  /\ pc = "start"
  /\ \/ /\ ~mda_pipe
        /\ stdout' = Append(stdout, << >>)
        /\ exit_code' = 1
        /\ pc' = "exit"
     \/ /\ mda_pipe
        /\ pc' = "poll"
        /\ UNCHANGED << stdout, exit_code >>
  /\ UNCHANGED << mda_pipe, events, data, screen, out_lines, nread, nwritten >>

\* line 146: poll.poll(1000 // 12) returns with or without the pipe readable
Poll ==
  /\ pc = "poll"
  /\ \E ready \in BOOLEAN : events' = ready
  /\ pc' = "test"
  /\ UNCHANGED << mda_pipe, data, screen, out_lines, stdout, exit_code, nread, nwritten >>

\* line 146: the test of the if
Test ==
  /\ pc = "test"
  /\ pc' = IF events THEN "read" ELSE "poll"
  /\ UNCHANGED << mda_pipe, events, data, screen, out_lines, stdout, exit_code, nread, nwritten >>

\* line 147: data = os.read(fifo, 49_152)
Read ==
  /\ pc = "read"
  /\ nread < MaxChunks
  /\ \E chunk \in Chunks : data' = chunk
  /\ nread' = nread + 1
  /\ pc' = "decode"
  /\ UNCHANGED << mda_pipe, events, screen, out_lines, stdout, exit_code, nwritten >>

\* line 149: screen = cp866_to_utf8(data)
Decode ==
  /\ pc = "decode"
  /\ screen' = cp866_to_utf8(data)
  /\ pc' = "patch"
  /\ UNCHANGED << mda_pipe, events, data, out_lines, stdout, exit_code, nread, nwritten >>

\* line 151: screen = fix_screen_text(screen)
Patch ==
  /\ pc = "patch"
  /\ LET lines == splitlines(screen, 1)
     IN  /\ out_lines' = [i \in 1..Len(lines) |-> FixOneLine(lines[i])]
         /\ screen' = fix_screen_text(screen)
  /\ pc' = "write"
  /\ UNCHANGED << mda_pipe, events, data, stdout, exit_code, nread, nwritten >>

\* line 152: print(ANSI_CURSOR_HOME + screen, end="").  The locals are dead
\* from here to the next read and are cleared.
Write ==
  /\ pc = "write"
  /\ stdout' = Append(stdout, ANSI_CURSOR_HOME)
  /\ nwritten' = nwritten + 1
  /\ data' = << >>
  /\ screen' = << >>
  /\ out_lines' = << >>
  /\ pc' = "poll"
  /\ UNCHANGED << mda_pipe, events, exit_code, nread >>

\* line 153: a KeyboardInterrupt is raised between any two statements of the
\* try block
Interrupt ==
  /\ pc \in LoopPcs
  /\ pc' = "except"
  /\ UNCHANGED << mda_pipe, events, data, screen, out_lines, stdout, exit_code, nread, nwritten >>

\* the handler without its print
ExceptNoReset ==
  /\ pc = "except"
  /\ exit_code' = 0
  /\ pc' = "exit"
  /\ UNCHANGED << mda_pipe, events, data, screen, out_lines, stdout, nread, nwritten >>

\* lines 154-155: print(ANSI_ATTR_RESET); return 0
Except ==
  /\ pc = "except"
  /\ stdout' = Append(stdout, ANSI_ATTR_RESET)
  /\ exit_code' = 0
  /\ pc' = "exit"
  /\ UNCHANGED << mda_pipe, events, data, screen, out_lines, nread, nwritten >>

Next ==
  \/ Start
  \/ Poll
  \/ Test
  \/ Read
  \/ Decode
  \/ Patch
  \/ Write
  \/ Interrupt
  \/ Except

Spec == Init /\ [][Next]_vars

(***************************************************************************)
(* What the properties below speak of.  A token is described here by what  *)
(* it is (a run of hex digits with no word character on either side), not  *)
(* by how the fixers scan for it.                                          *)
(***************************************************************************)
\* the patcher has run and its result is about to be printed
Patched == pc = "write"

\* the decoded screen the patcher was given
Raw == cp866_to_utf8(data)

\* its lines, each with its line break
InLines == splitlines(Raw, 1)

\* line i as the detectors receive it
InCore(i) == LineCore(InLines[i])

\* line i of the output without the terminator that was reattached
OutCore(i) ==
  SubSeq(out_lines[i], 1, Len(out_lines[i]) - Len(LineNl(InLines[i])))

StartsWithAddress(l) ==
  /\ Len(l) >= 9
  /\ \A k \in {1, 2, 3, 4, 6, 7, 8, 9} : IsHex(l[k])
  /\ l[5] = 58

\* the text after the address field
AfterAddress(l) == SubSeq(l, 10, Len(l))

\* the offsets in s where a standalone token of w hex digits starts
StandaloneStarts(s, w) ==
  { p \in 0..(Len(s) - w) :
      /\ \A k \in 1..w : IsHex(s[p + k])
      /\ p = 0 \/ ~IsWordChar(s[p])
      /\ p + w = Len(s) \/ ~IsWordChar(s[p + w + 1]) }

\* the number of standalone w-digit tokens after the address of l
TokenCount(l, w) == Cardinality(StandaloneStarts(AfterAddress(l), w))

\* the n-th smallest element of S
NthStart(S, n) == CHOOSE p \in S : Cardinality({q \in S : q < p}) = n - 1

\* the offsets in s of its first n standalone w-digit tokens
TokenOffsets(s, w, n) ==
  LET S == StandaloneStarts(s, w)
  IN  [i \in 1..n |-> NthStart(S, i)]

\* the offset in s of the n-th standalone w-digit token
NthToken(s, w, n) == NthStart(StandaloneStarts(s, w), n)

\* the number a token of w hex digits at offset p of s writes
RECURSIVE TokenNumber(_, _, _)
TokenNumber(s, p, w) ==
  IF w = 0 THEN 0
  ELSE 16 * TokenNumber(s, p, w - 1) + HexDigitValue(s[p + w])

\* the offset in l just after its n-th standalone w-digit token
SplitPoint(l, w, n) == 9 + NthToken(AfterAddress(l), w, n) + w

\* the number of spaces of l that follow offset e
OldPad(l, e) ==
  CHOOSE k \in 0..(Len(l) - e) :
    /\ \A j \in 1..k : l[e + j] = 32
    /\ e + k = Len(l) \/ l[e + k + 1] # 32

NewPad(l, e) == IF OldPad(l, e) = 0 THEN 2 ELSE OldPad(l, e)

\* the 16 bytes the first 16 two-digit tokens of l write
BytesOfByteTokens(l) ==
  LET s == AfterAddress(l)
      at == TokenOffsets(s, 2, 16)
  IN  [i \in 1..16 |-> TokenNumber(s, at[i], 2)]

\* the 16 bytes the first 8 four-digit tokens of l write, low byte first
BytesOfWordTokens(l) ==
  LET s == AfterAddress(l)
      at == TokenOffsets(s, 4, 8)
  IN  [i \in 1..16 |->
         LET w == TokenNumber(s, at[(i + 1) \div 2], 4)
         IN  IF i % 2 = 1 THEN w % 256 ELSE (w \div 256) % 256]

\* the character a byte of the run is shown as
ShownAs(b) == IF b < 32 \/ b = 127 THEN 46 ELSE Cp866CodePoint(b)

\* the last 16 characters of a rewritten line
Column(l) == SubSeq(l, Len(l) - 15, Len(l))

\* l has the byte layout, l has the word layout and not the byte layout
IsByteLine(l) == StartsWithAddress(l) /\ TokenCount(l, 2) >= 16

IsWordLine(l) == StartsWithAddress(l) /\ TokenCount(l, 2) < 16 /\ TokenCount(l, 4) >= 8

\* the rewrite of l from its first n tokens of w digits, which write `run`
Rewrite(l, w, n, run) ==
  LET e == SplitPoint(l, w, n)
  IN  SubSeq(l, 1, e) \o Spaces(NewPad(l, e)) \o [i \in 1..16 |-> ShownAs(run[i])]

C2_ByteRewrite ==
  Patched =>
    \A i \in 1..Len(InLines) :
      LET l == InCore(i)
      IN  IsByteLine(l) =>
            LET e == SplitPoint(l, 2, 16)
                r == try_fix_byte_view_line(l)
            IN  /\ r = Rewrite(l, 2, 16, BytesOfByteTokens(l))
                /\ Len(r) = e + NewPad(l, e) + 16
                /\ OutCore(i) = r
                /\ \A t \in {cp866_to_utf8(t) : t \in Tails} :
                     LET alt == SubSeq(l, 1, e) \o t
                     IN  (IsByteLine(alt) /\ SplitPoint(alt, 2, 16) = e)
                           => Column(try_fix_byte_view_line(alt)) = Column(r)

\* a byte line whose old tail is not empty and starts with no space (the
\* pad of 2) was rewritten
C2_Witness ==
  /\ Patched
  /\ \E i \in 1..Len(InLines) :
       /\ IsByteLine(InCore(i))
       /\ LET e == SplitPoint(InCore(i), 2, 16)
          IN  /\ e < Len(InCore(i))
              /\ OldPad(InCore(i), e) = 0
              /\ Len(OutCore(i)) = e + NewPad(InCore(i), e) + 16
              /\ OutCore(i) # InCore(i)

\* C3: for a line with an address field and at least 8 standalone four-digit
\* tokens that the byte detector does not take, the output keeps the text up
\* to the end of the 8th token and its 16 characters show, for each of the
\* first 8 words in order, the low byte and then the high byte; the line
\* "0000:0500  0000 2020 0000 0000 0000 0000 0000 0000  .... ...." gets the
\* tail "..", two spaces, twelve ".".
C3_WordRewrite ==
  Patched =>
    \A i \in 1..Len(InLines) :
      LET l == InCore(i)
      IN  /\ IsWordLine(l) =>
               /\ OutCore(i) = Rewrite(l, 4, 8, BytesOfWordTokens(l))
               /\ SubSeq(OutCore(i), 1, SplitPoint(l, 4, 8)) = SubSeq(l, 1, SplitPoint(l, 4, 8))
               /\ LET s == AfterAddress(l)
                      at == TokenOffsets(s, 4, 8)
                      col == Column(OutCore(i))
                  IN  \A j \in 1..8 :
                        LET w == TokenNumber(s, at[j], 4)
                        IN  /\ col[2 * j - 1] = ShownAs(w % 256)
                            /\ col[2 * j] = ShownAs((w \div 256) % 256)
          /\ l = cp866_to_utf8(ScenarioB) =>
               Column(OutCore(i)) =
                 << 46, 46, 32, 32, 46, 46, 46, 46, 46, 46, 46, 46, 46, 46, 46, 46 >>

\* a word line whose first word has an ASCII low byte and a high byte of the
\* upper half was rewritten, the low byte first
C3_Witness ==
  /\ Patched
  /\ \E i \in 1..Len(InLines) :
       /\ IsWordLine(InCore(i))
       /\ LET run == BytesOfWordTokens(InCore(i))
          IN  /\ run[1] # run[2]
              /\ run[1] \in 33..126
              /\ run[2] > 127
              /\ Column(OutCore(i))[1] = run[1]

\* C4: in every rewritten line each of the 16 bytes below 0x20 or equal to
\* 0x7F is shown as "." and every other byte as the one character the
\* decoder gives for it; render_byte_cp866 returns exactly one character for
\* each of 0..255.
C4_ControlBytes ==
  Patched =>
    /\ \A b \in 0..255 : Len(render_byte_cp866(b)) = 1
    /\ \A i \in 1..Len(InLines) :
         LET l == InCore(i)
             run == IF IsByteLine(l) THEN BytesOfByteTokens(l) ELSE BytesOfWordTokens(l)
             col == Column(OutCore(i))
         IN  (IsByteLine(l) \/ IsWordLine(l)) =>
               \A j \in 1..16 :
                 IF run[j] < 32 \/ run[j] = 127
                   THEN col[j] = 46
                   ELSE /\ cp866_to_utf8(<< run[j] >>) = << col[j] >>
                        /\ col[j] = Cp866CodePoint(run[j])

\* a rewritten line holds the byte 0x7F, shown as ".", beside a byte of the
\* upper half, shown as its CP866 character
C4_Witness ==
  /\ Patched
  /\ \E i \in 1..Len(InLines) :
       /\ IsByteLine(InCore(i))
       /\ BytesOfByteTokens(InCore(i))[1] = 127
       /\ BytesOfByteTokens(InCore(i))[8] = 136
       /\ Column(OutCore(i))[1] = 46
       /\ Column(OutCore(i))[8] = 1048

\* C5: patching a patched screen changes nothing: every line the patcher
\* has put out is classified as before and gets the same padding and the
\* same 16 characters when the patcher runs on it again.
C5_Idempotent ==
  Patched =>
    \A i \in 1..Len(out_lines) :
      fix_screen_text(out_lines[i]) = out_lines[i]

\* the line break a line of splitlines ends with
LineBreakOf(line) ==
  IF Len(line) >= 2 /\ line[Len(line) - 1] = 13 /\ line[Len(line)] = 10
    THEN << 13, 10 >>
  ELSE IF Len(line) >= 1 /\ line[Len(line)] \in LineBreaks THEN << line[Len(line)] >>
  ELSE << >>

\* C6: the output has as many lines as the input, in the same order, and
\* each output line ends with the line break its input line ended with.
C6_LineStructure ==
  Patched =>
    LET outs == splitlines(screen, 1)
    IN  /\ Len(outs) = Len(InLines)
        /\ \A i \in 1..Len(InLines) :
             /\ LineBreakOf(out_lines[i]) = LineBreakOf(InLines[i])
             /\ outs[i] = out_lines[i]

\* the tokens of w digits of l beyond the first n: their offsets in l
ExtraTokens(l, w, n) ==
  LET S == StandaloneStarts(AfterAddress(l), w)
  IN  { 9 + p : p \in { q \in S : Cardinality({r \in S : r < q}) >= n } }

\* C7 as stated: the tokens beyond the 16th (8th) lie in the part of the
\* line that the rewrite leaves untouched and are still in the output.
C7_ExtraTokensKept ==
  Patched =>
    \A i \in 1..Len(InLines) :
      LET l == InCore(i)
          w == IF IsByteLine(l) THEN 2 ELSE 4
          n == IF IsByteLine(l) THEN 16 ELSE 8
      IN  (IsByteLine(l) \/ IsWordLine(l)) =>
            \A p \in ExtraTokens(l, w, n) :
              /\ p + w <= SplitPoint(l, w, n)
              /\ p + w <= Len(OutCore(i))
              /\ SubSeq(OutCore(i), p + 1, p + w) = SubSeq(l, p + 1, p + w)

\* C7 amended: of a line with more than 16 (8) tokens only the first 16 (8)
\* make the Byte Run; the text up to the end of the 16th (8th) token is kept;
\* every further token starts at or after the split point, in the stale tail,
\* and is replaced with it: after the split point the output holds the
\* padding and the 16 characters and nothing else.
C7_ExtraTokensReplaced ==
  Patched =>
    \A i \in 1..Len(InLines) :
      LET l == InCore(i)
          w == IF IsByteLine(l) THEN 2 ELSE 4
          n == IF IsByteLine(l) THEN 16 ELSE 8
          run == IF IsByteLine(l) THEN BytesOfByteTokens(l) ELSE BytesOfWordTokens(l)
      IN  ((IsByteLine(l) \/ IsWordLine(l)) /\ TokenCount(l, w) > n) =>
            LET e == SplitPoint(l, w, n)
                o == OutCore(i)
            IN  /\ SubSeq(o, 1, e) = SubSeq(l, 1, e)
                /\ \A p \in ExtraTokens(l, w, n) : p >= e
                /\ Len(o) = e + NewPad(l, e) + 16
                /\ \A j \in (e + 1)..(e + NewPad(l, e)) : o[j] = 32
                /\ Column(o) = [j \in 1..16 |-> ShownAs(run[j])]

\* a byte line with a 17th token was rewritten, and the output does not hold
\* that token where the line held it
C7_Witness ==
  /\ Patched
  /\ \E i \in 1..Len(InLines) :
       LET l == InCore(i)
       IN  /\ IsByteLine(l)
           /\ TokenCount(l, 2) > 16
           /\ OutCore(i) # l
           /\ \E p \in ExtraTokens(l, 2, 16) :
                SubSeq(OutCore(i), p + 1, p + 2) # SubSeq(l, p + 1, p + 2)

\* the prints of stdout that start with the control sequence esc
Prints(esc) == Cardinality({k \in 1..Len(stdout) : stdout[k] = esc})

\* C8 as stated: when the driver has left the loop on an interrupt, every
\* chunk read has been printed, ESC[0m was printed once and the exit code
\* is 0.
C8_Cooperative ==
  (pc = "exit" /\ mda_pipe) =>
    /\ nwritten = nread
    /\ Prints(ANSI_CURSOR_HOME) = nread
    /\ Prints(ANSI_ATTR_RESET) = 1
    /\ exit_code = 0

\* C8 amended: one interrupt, at any statement of the loop, ends the loop at
\* once; the cycle in flight is abandoned, so the chunk read last may not
\* have been printed, while every chunk before it has; the driver then
\* prints ESC[0m once, as its last print, and returns 0.
C8_InterruptAbandonsCycle ==
  /\ (pc = "exit" /\ mda_pipe) =>
       /\ nread - nwritten \in {0, 1}
       /\ Prints(ANSI_CURSOR_HOME) = nwritten
       /\ Prints(ANSI_ATTR_RESET) = 1
       /\ stdout[Len(stdout)] = ANSI_ATTR_RESET
       /\ exit_code = 0
  /\ pc = "except" =>
       /\ nread - nwritten \in {0, 1}
       /\ Prints(ANSI_ATTR_RESET) = 0

\* the driver has exited with 0 after two reads and one print
C8_Witness ==
  /\ pc = "exit"
  /\ exit_code = 0
  /\ nread = 2
  /\ nwritten = 1
  /\ data # << >>

\* C9: the byte detector is tried first: a line it takes is emitted as its
\* rewrite, the word detector's rewrite is emitted only when the byte
\* detector gives nothing, and the line itself only when both give nothing;
\* a line with 16 two-digit and 8 four-digit tokens gets the byte rewrite,
\* split after the 16th two-digit token.
C9_ByteFirst ==
  Patched =>
    \A i \in 1..Len(InLines) :
      LET l == InCore(i)
          b == try_fix_byte_view_line(l)
          w == try_fix_word_view_line(l)
      IN  /\ b # None => OutCore(i) = b
          /\ (b = None /\ w # None) => OutCore(i) = w
          /\ (b = None /\ w = None) => OutCore(i) = l
          /\ (StartsWithAddress(l) /\ TokenCount(l, 2) >= 16 /\ TokenCount(l, 4) >= 8)
               => /\ OutCore(i) = Rewrite(l, 2, 16, BytesOfByteTokens(l))
                  /\ Len(OutCore(i)) = SplitPoint(l, 2, 16) + NewPad(l, SplitPoint(l, 2, 16)) + 16

\* a line with both layouts, whose two rewrites differ, got the byte rewrite
C9_Witness ==
  /\ Patched
  /\ \E i \in 1..Len(InLines) :
       LET l == InCore(i)
       IN  /\ StartsWithAddress(l)
           /\ TokenCount(l, 2) >= 16
           /\ TokenCount(l, 4) >= 8
           /\ try_fix_word_view_line(l) # None
           /\ try_fix_word_view_line(l) # try_fix_byte_view_line(l)
           /\ SplitPoint(l, 4, 8) < SplitPoint(l, 2, 16)
           /\ OutCore(i) = try_fix_byte_view_line(l)

\* the token of s at tok, s being l from offset 9 on, has no word character
\* beside it in l
StandaloneInLine(l, tok) ==
  /\ ~IsWordChar(l[9 + tok.start])
  /\ 9 + tok.end = Len(l) \/ ~IsWordChar(l[9 + tok.end + 1])

\* C10: each of the 16 (8) tokens a detector consumes is, in the line, not
\* part of a longer run of word characters; the first one is separated from
\* the last digit of the address.
C10_TokensStandalone ==
  Patched =>
    \A i \in 1..Len(InLines) :
      LET l == InCore(i)
      IN  /\ try_fix_byte_view_line(l) # None =>
               \A k \in 1..16 : StandaloneInLine(l, finditer(RestGroup(l), 2, 0)[k])
          /\ (try_fix_byte_view_line(l) = None /\ try_fix_word_view_line(l) # None) =>
               \A k \in 1..8 : StandaloneInLine(l, finditer(RestGroup(l), 4, 0)[k])

=============================================================================
